---- MODULE Spec2Model ----
(***************************************************************************)
(* The two-tier availability cache of the iPhone pickup worker            *)
(* (src/src/worker.js): the response cache (caches.default), the durable  *)
(* store (AVAIL_KV, key availability.latest), the request handler         *)
(* handleApiAvailability with its waitUntil tasks, the rebuild            *)
(* refreshAvailabilityKV / buildAvailabilityPayload and the cron trigger. *)
(***************************************************************************)
EXTENDS Integers, Sequences, FiniteSets, TLC

(***************************************************************************)
(* Bounds of the model.                                                    *)
(***************************************************************************)
MaxInv == 2        \* worker invocations (requests, cron runs) alive at once
MaxClock == 1      \* the wall clock takes the values 0..MaxClock
MaxParams == 1     \* query parameters of a request URL
MaxKeyParams == 2  \* the same, in the specification of the cache key
MaxFamilies == 2   \* families of a discovery run on its own
MaxProducts == 2   \* products on one family page
MaxSeeds == 2      \* seeds of a fulfillment run on its own
MaxStores == 2     \* stores in the response to one seed
MaxRows == 2       \* hours rows of a store

Inv == 1..MaxInv

(***************************************************************************)
(* Request URLs: the query string as the ordered list of its name/value    *)
(* pairs (URLSearchParams).  The path is /api/availability throughout.     *)
(***************************************************************************)
Params == { <<"force", "1">>, <<"force", "0">>, <<"refresh", "1">> }

RECURSIVE SeqsUpTo(_, _)
SeqsUpTo(S, n) ==
    IF n = 0 THEN { <<>> }
    ELSE LET shorter == SeqsUpTo(S, n - 1)
         IN  shorter \cup { Append(s, x) : s \in shorter, x \in S }

Urls == SeqsUpTo(Params, MaxParams)

\* the URLs of the specification of the cache key: a parameter t besides
KeyParams == { <<"force", "1">>, <<"refresh", "1">>, <<"t", "1">> }
KeyUrls == SeqsUpTo(KeyParams, MaxKeyParams)

AllUrls == Urls \cup KeyUrls

\* url.searchParams.get(name): the value of the first pair named name, or null
RECURSIVE searchParamsGet(_, _)
searchParamsGet(u, name) ==
    IF u = <<>> THEN "null"
    ELSE IF Head(u)[1] = name THEN Head(u)[2]
    ELSE searchParamsGet(Tail(u), name)

\* url.searchParams.delete(name): every pair named name is removed
RECURSIVE searchParamsDelete(_, _)
searchParamsDelete(u, name) ==
    IF u = <<>> THEN <<>>
    ELSE IF Head(u)[1] = name THEN searchParamsDelete(Tail(u), name)
    ELSE <<Head(u)>> \o searchParamsDelete(Tail(u), name)

\* the mutant of availabilityCacheKey that forgets the refresh parameter
availabilityCacheKey_keepsRefresh(u) == searchParamsDelete(u, "force")

availabilityCacheKey(u) ==
    searchParamsDelete(searchParamsDelete(u, "force"), "refresh")

\* const force = ... (worker.js:286)
forceFlag(u) ==
    searchParamsGet(u, "force") = "1" \/ searchParamsGet(u, "refresh") = "1"


(***************************************************************************)
(* Configuration (getConfig with no environment overrides).                *)
(***************************************************************************)
DEFAULT_FAMILIES == << "iphone-17", "iphone-17-pro", "iphone-air" >>
DEFAULT_LOCATION_SEEDS == << "Taiwan" >>

(***************************************************************************)
(* Part discovery.  A family page is what the fetch of its buy page gave:  *)
(* an HTTP failure, a page without the metrics script, a metrics script    *)
(* that is not JSON, or the products of metrics.data.products.  A product  *)
(* is [partNumber, category]; partNumber 0 stands for a missing (falsy)    *)
(* one.  A part keeps the partNumber and the family slug that listed it.   *)
(***************************************************************************)
Threw == [threw |-> TRUE]
Returned(v) == [threw |-> FALSE, value |-> v]

\* products.filter(p => p?.partNumber && p?.category === "iphone").map(...)
RECURSIVE productsToParts(_, _)
productsToParts(products, familySlug) ==
    IF products = <<>> THEN <<>>
    ELSE LET p == Head(products)
             rest == productsToParts(Tail(products), familySlug)
         IN  IF p.partNumber /= 0 /\ p.category = "iphone"
             THEN << [partNumber |-> p.partNumber, family |-> familySlug] >> \o rest
             ELSE rest

fetchPartsFromBuyPage(familySlug, page) ==
    IF page.kind /= "ok" THEN Threw
    ELSE Returned(productsToParts(page.products, familySlug))

\* the mutant of pushUnseen that pushes every part, seen or not
pushUnseen_noSeenCheck(parts, list) == parts \o list

\* for (const p of list) if (!seen.has(p.partNumber)) { seen.add; parts.push }
RECURSIVE pushUnseen(_, _)
pushUnseen(parts, list) ==
    IF list = <<>> THEN parts
    ELSE LET p == Head(list)
             seen == { parts[k].partNumber : k \in 1..Len(parts) }
         IN  pushUnseen(IF p.partNumber \in seen THEN parts ELSE Append(parts, p),
                        Tail(list))

\* the mutant of mergeFamily in which a family that throws empties the list
mergeFamily_failureDropsAll(parts, familySlug, page) ==
    LET r == fetchPartsFromBuyPage(familySlug, page)
    IN  IF r.threw THEN <<>> ELSE pushUnseen(parts, r.value)

\* one iteration of the loop over families: a family that throws is ignored
mergeFamily(parts, familySlug, page) ==
    LET r == fetchPartsFromBuyPage(familySlug, page)
    IN  IF r.threw THEN parts ELSE pushUnseen(parts, r.value)

RECURSIVE mergeFamilies(_, _, _)
mergeFamilies(parts, families, pages) ==
    IF families = <<>> THEN parts
    ELSE mergeFamilies(mergeFamily(parts, Head(families), Head(pages)),
                       Tail(families), Tail(pages))

\* the mutant of fetchIphonePartsForFamilies that returns an empty list
fetchIphonePartsForFamilies_returnsEmpty(families, pages) ==
    Returned(mergeFamilies(<<>>, families, pages))

\* pages[k] is the outcome of the fetch of families[k]'s page
fetchIphonePartsForFamilies(families, pages) ==
    LET parts == mergeFamilies(<<>>, families, pages)
    IN  IF Len(parts) = 0 THEN Threw ELSE Returned(parts)

(***************************************************************************)
(* Fulfillment.  A seed response is an HTTP failure, a body that is not    *)
(* JSON, or the stores of body.content.pickupMessage.stores.  A raw store  *)
(* carries storeNumber ("" when absent), country, city, storeName and      *)
(* partsAvailability, a function from part numbers to                      *)
(* [pickupDisplay, isBuyable] ("" for an absent pickupDisplay).            *)
(***************************************************************************)
fetchFulfillmentForSeed(partNumbers, seed, response) ==
    IF response.kind /= "ok" THEN Threw ELSE Returned(response.stores)

\* s.storeNumber || `${s.country}:${s.city}:${s.storeName}`
storeKey(s) ==
    IF s.storeNumber /= "" THEN s.storeNumber
    ELSE s.country \o ":" \o s.city \o ":" \o s.storeName

\* the mutant of mergeStoreList that keeps every store, key seen or not
mergeStoreList_noKeyCheck(merged, list) == merged \o list

RECURSIVE mergeStoreList(_, _)
mergeStoreList(merged, list) ==
    IF list = <<>> THEN merged
    ELSE LET s == Head(list)
             keys == { storeKey(merged[k]) : k \in 1..Len(merged) }
         IN  mergeStoreList(IF storeKey(s) \in keys THEN merged ELSE Append(merged, s),
                            Tail(list))

RECURSIVE mergeStoresFrom(_, _)
mergeStoresFrom(merged, storesArr) ==
    IF storesArr = <<>> THEN merged
    ELSE mergeStoresFrom(mergeStoreList(merged, Head(storesArr)), Tail(storesArr))

mergeStores(storesArr) == mergeStoresFrom(<<>>, storesArr)

(***************************************************************************)
(* Store hours.  Weekdays are indices into zhDays, 0 for Sunday.  The day  *)
(* field of an hours row is the list of its comma-separated tokens, each a *)
(* day a and, for a range, a second day b (-1 when there is none; a = -1   *)
(* for a token that names no day).  The timings field is the list of its   *)
(* pieces between hyphens; a piece is a time of day with an optional am/pm *)
(* marker, or text that is no time.                                        *)
(***************************************************************************)
\* for (let i = a; i <= b; i++) set.add(zhDays[i]), or set.add(zhDays[a])
daysOfToken(tk) ==
    IF tk.a >= 0 /\ tk.b >= 0 THEN tk.a .. tk.b
    ELSE IF tk.a >= 0 THEN { tk.a }
    ELSE {}

expandChineseDays(days) == UNION { daysOfToken(days[n]) : n \in 1..Len(days) }

\* the values null and NaN of a parsed time, apart from every minute count
null == -1
NaN == -2

\* the mutant of parseCNTimeToken that ignores the pm marker
parseCNTimeToken_ignoresPm(tok) ==
    IF tok.kind = "absent" THEN null
    ELSE IF tok.kind = "text" THEN NaN
    ELSE (IF tok.marker = "am" /\ tok.h = 12 THEN 0 ELSE tok.h) * 60 + tok.m

\* null for a missing token, NaN for text, else minutes of the day
parseCNTimeToken(tok) ==
    IF tok.kind = "absent" THEN null
    ELSE IF tok.kind = "text" THEN NaN
    ELSE LET h == IF tok.marker = "pm" /\ tok.h < 12 THEN tok.h + 12
                  ELSE IF tok.marker = "am" /\ tok.h = 12 THEN 0
                  ELSE tok.h
         IN  h * 60 + tok.m

\* the comparison of computeOpenNow (worker.js:163-167); a comparison with
\* NaN is false
isOpenAt(startMin, endMin, minutes) ==
    IF startMin = NaN \/ endMin = NaN THEN FALSE
    ELSE LET end == IF endMin < startMin THEN endMin + 1440 ELSE endMin
             now == IF minutes < startMin /\ (end - startMin) > 720
                    THEN minutes + 1440 ELSE minutes
         IN  now >= startMin /\ now <= end

\* const [startRaw, endRaw] = String(timings).split('-')
startRawOf(row) == IF Len(row.timings) >= 1 THEN row.timings[1] ELSE [kind |-> "absent"]
endRawOf(row) == IF Len(row.timings) >= 2 THEN row.timings[2] ELSE [kind |-> "absent"]

\* the row is skipped by the loop of computeOpenNow: it does not list the
\* weekday, or one of its two times is missing
rowSkipped(row, weekday) ==
    \/ weekday \notin expandChineseDays(row.days)
    \/ parseCNTimeToken(startRawOf(row)) = null
    \/ parseCNTimeToken(endRawOf(row)) = null

\* the compact projection of a store (worker.js:247)
storeProjection(s) ==
    [storeNumber |-> s.storeNumber, storeName |-> s.storeName, city |-> s.city]

availabilityRecord(s, part) ==
    LET pa == s.partsAvailability[part.partNumber]
    IN  [ store |-> storeProjection(s),
          part |-> part,
          status |-> IF pa.pickupDisplay /= "" THEN pa.pickupDisplay
                     ELSE IF pa.isBuyable THEN "available" ELSE "unavailable",
          isBuyable |-> pa.isBuyable ]

RECURSIVE recordsOfStore(_, _)
recordsOfStore(s, parts) ==
    IF parts = <<>> THEN <<>>
    ELSE LET rest == recordsOfStore(s, Tail(parts))
         IN  IF Head(parts).partNumber \in DOMAIN s.partsAvailability
             THEN << availabilityRecord(s, Head(parts)) >> \o rest
             ELSE rest

\* the store x part cross join; the derived display fields of a store
\* (hours, map and phone links) are not part of this projection
RECURSIVE normalizeAvailability(_, _)
normalizeAvailability(stores, parts) ==
    IF stores = <<>> THEN <<>>
    ELSE recordsOfStore(Head(stores), parts) \o normalizeAvailability(Tail(stores), parts)

\* parts.map(p => p.partNumber)
RECURSIVE partNumbersOf(_)
partNumbersOf(parts) ==
    IF parts = <<>> THEN <<>>
    ELSE << Head(parts).partNumber >> \o partNumbersOf(Tail(parts))

\* stores.map(s => ({ storeNumber, storeName, city }))
RECURSIVE storeProjections(_)
storeProjections(stores) ==
    IF stores = <<>> THEN <<>>
    ELSE << storeProjection(Head(stores)) >> \o storeProjections(Tail(stores))

\* the mutant of pushStores in which a seed that throws empties the lists
pushStores_failureDropsAll(storesLists, partNumbers, seed, response) ==
    LET r == fetchFulfillmentForSeed(partNumbers, seed, response)
    IN  IF r.threw THEN <<>>
        ELSE IF Len(r.value) > 0 THEN Append(storesLists, r.value) ELSE storesLists

\* the body of the loop over seeds: try { stores = await fetchFulfillment-
\* ForSeed(...); if (stores?.length) storesLists.push(stores) } catch {}
pushStores(storesLists, partNumbers, seed, response) ==
    LET r == fetchFulfillmentForSeed(partNumbers, seed, response)
    IN  IF ~r.threw /\ Len(r.value) > 0 THEN Append(storesLists, r.value)
        ELSE storesLists

\* the loop over seeds: a seed that throws, or has no stores, adds no list
RECURSIVE collectStoresLists(_, _, _)
collectStoresLists(partNumbers, seeds, responses) ==
    IF seeds = <<>> THEN <<>>
    ELSE LET r == fetchFulfillmentForSeed(partNumbers, Head(seeds), Head(responses))
             rest == collectStoresLists(partNumbers, Tail(seeds), Tail(responses))
         IN  IF ~r.threw /\ Len(r.value) > 0 THEN << r.value >> \o rest ELSE rest

\* the payload once discovery has returned parts; now is new Date()
payloadOf(parts, seeds, responses, now) ==
    LET stores == mergeStores(collectStoresLists(partNumbersOf(parts), seeds, responses))
    IN  [ generatedAt |-> now,
          models |-> parts,
          stores |-> storeProjections(stores),
          availability |-> normalizeAvailability(stores, parts) ]


(***************************************************************************)
(* Responses and the two tiers.                                            *)
(***************************************************************************)
NoResponse == [status |-> 0]
NoValue == [absent |-> TRUE]

\* { source: src, ...payload }: a source field of the payload itself would win
withSource(src, payload) == payload @@ [source |-> src]

hasAvail(payload) ==
    \E k \in 1..Len(payload.availability) :
        payload.availability[k].isBuyable \/ payload.availability[k].status = "available"

computeTtls(payload) ==
    [ browserMaxAge |-> 0,
      edgeMaxAge |-> IF hasAvail(payload) THEN 10 ELSE 20,
      swr |-> IF hasAvail(payload) THEN 60 ELSE 90 ]

\* the lifetimes the cold-start task passes to makeJSON (worker.js:322)
coldStartTtls == [browserMaxAge |-> 5, edgeMaxAge |-> 60, swr |-> 300]

makeJSON(data, ttls) == [status |-> 200, body |-> data, cacheControl |-> ttls]

\* the mutant of errorResponse that forgets the status
errorResponse_status200 == [status |-> 200, body |-> [error |-> "message"]]

\* the top-level catch of fetch (worker.js:357-363)
errorResponse == [status |-> 500, body |-> [error |-> "message"]]

\* the mutant of warmPayload that serves the last parts list as a placeholder
warmPayload_keepsModels(now) ==
    [ source |-> "warmup", generatedAt |-> now,
      models |-> << [partNumber |-> 1, family |-> "iphone-17"] >>,
      stores |-> <<>>, availability |-> <<>> ]

warmPayload(now) ==
    [ source |-> "warmup", generatedAt |-> now,
      models |-> <<>>, stores |-> <<>>, availability |-> <<>> ]

\* putKV stores JSON.stringify(json); getKV gives JSON.parse(v), or null
JSONstringify(x) == [json |-> x]
JSONparse(v) == v.json


(***************************************************************************)
(* What the upstream site answers to a rebuild of the state machine: the   *)
(* pages of the three default families (all down, none with a qualifying   *)
(* product, or two of them up and sharing a part), and the response to the *)
(* one default seed.                                                       *)
(***************************************************************************)
pageDown == [kind |-> "http"]
pageOf(products) == [kind |-> "ok", products |-> products]
iphone(n) == [partNumber |-> n, category |-> "iphone"]

SitePages ==
    { << pageDown, pageDown, pageDown >>,
      << pageOf(<< [partNumber |-> 1, category |-> "accessory"] >>),
         pageOf(<< >>), [kind |-> "nometrics"] >>,
      << pageOf(<< iphone(1) >>), pageDown, pageOf(<< iphone(1), iphone(2) >>) >> }

storeXinyi(pa) ==
    [ storeNumber |-> "R713", country |-> "TW", city |-> "Taipei",
      storeName |-> "Xinyi A13", partsAvailability |-> pa ]

\* what the fulfillment endpoint reports, instant by instant: two queries at
\* the same instant see the same stock
StockHistory ==
    << << [kind |-> "http"] >>,
       << [kind |-> "ok", stores |->
             << storeXinyi(1 :> [pickupDisplay |-> "", isBuyable |-> TRUE]) >> ] >>,
       << [kind |-> "ok", stores |->
             << storeXinyi(1 :> [pickupDisplay |-> "unavailable", isBuyable |-> FALSE]) >> ] >> >>

seedResponsesAt(now) == StockHistory[(now % Len(StockHistory)) + 1]

(***************************************************************************)
(* State.                                                                  *)
(*   clock     the wall clock (new Date())                                 *)
(*   kv        the value under availability.latest in AVAIL_KV             *)
(*   kvWriter  the invocation whose put wrote kv (0: none alive)           *)
(*   edge      caches.default, by cache key                                *)
(*   inv       the worker invocations: for each, the request URL, the      *)
(*             handler's position pc and its response resp, the rebuild    *)
(*             it runs (mode, position rpc, parts, payload), its pending   *)
(*             waitUntil(cache.put(...)) (wpc, wres), the tier operations  *)
(*             it has performed (ops: cache.match, kv.get, kv.put,         *)
(*             cache.put by the background task, waitUntil.cache.put) and  *)
(*             the number of background rebuilds it has scheduled (nbg)    *)
(*   disc      one run of fetchIphonePartsForFamilies on its own: the      *)
(*             family list, the outcome of each page fetch, the number of  *)
(*             fetches issued, the number k of families answered and      *)
(*             merged, the parts pushed so far and how the run ended       *)
(*   ful       one run of the seed loop of buildAvailabilityPayload on its *)
(*             own: the seeds, the response to each query, the loop index  *)
(*             k, the store lists pushed so far and the merged stores      *)
(*   hrs       one run of computeOpenNow on its own: the weekday and the   *)
(*             minute of the day in Taipei, the hours rows, the loop index *)
(*             k and the result                                            *)
(***************************************************************************)
VARIABLES clock, kv, kvWriter, edge, inv, disc, ful, hrs

vars == << clock, kv, kvWriter, edge, inv, disc, ful, hrs >>

noDiscovery ==
    [ families |-> <<>>, pages |-> <<>>, issued |-> 0, k |-> 0, parts |-> <<>>,
      result |-> "none" ]

noFulfillment ==
    [ seeds |-> <<>>, responses |-> <<>>, k |-> 0, storesLists |-> <<>>,
      stores |-> <<>>, result |-> "none" ]

noHours ==
    [ weekday |-> 0, minutes |-> 0, hoursRows |-> <<>>, k |-> 0,
      isOpen |-> FALSE, todayHours |-> <<>>, result |-> "none" ]

idle ==
    [ kind |-> "idle", url |-> <<>>, pc |-> "idle", resp |-> NoResponse,
      mode |-> "none", rpc |-> "none", parts |-> <<>>, payload |-> NoValue,
      wpc |-> "none", wres |-> NoResponse, ops |-> {}, nbg |-> 0 ]

Init ==
    /\ clock = 0
    /\ kv = NoValue
    /\ kvWriter = 0
    /\ edge = [k \in AllUrls |-> NoResponse]
    /\ inv = [i \in Inv |-> idle]
    /\ disc = noDiscovery
    /\ ful = noFulfillment
    /\ hrs = noHours

\* cache.put(cacheKey, res)
cachePut(cache, key, res) == [cache EXCEPT ![key] = res]

(***************************************************************************)
(* The rebuild: refreshAvailabilityKV = buildAvailabilityPayload, putKV.   *)
(***************************************************************************)
\* fetchIphonePartsForFamilies has answered (worker.js:235)
Discover(i) ==
    /\ inv[i].rpc = "discover"
    /\ \E pages \in SitePages :
         LET r == fetchIphonePartsForFamilies(DEFAULT_FAMILIES, pages)
         IN  inv' = [inv EXCEPT ![i].rpc = IF r.threw THEN "threw" ELSE "fulfil",
                                ![i].parts = IF r.threw THEN <<>> ELSE r.value]
    /\ UNCHANGED << clock, kv, kvWriter, edge, disc, ful, hrs >>

\* the mutant of Fulfil in which a build that got no store from any seed
\* throws
Fulfil_throwsWithoutStores(i) ==
    /\ inv[i].rpc = "fulfil"
    /\ LET p == payloadOf(inv[i].parts, DEFAULT_LOCATION_SEEDS,
                          seedResponsesAt(clock), clock)
       IN  inv' = [inv EXCEPT ![i].rpc = IF p.stores = <<>> THEN "threw" ELSE "put",
                              ![i].payload = IF p.stores = <<>> THEN @ ELSE p]
    /\ UNCHANGED << clock, kv, kvWriter, edge, disc, ful, hrs >>

\* the seeds have answered and the payload is built (worker.js:236-247)
Fulfil(i) ==
    /\ inv[i].rpc = "fulfil"
    /\ inv' = [inv EXCEPT ![i].rpc = "put",
                          ![i].payload = payloadOf(inv[i].parts, DEFAULT_LOCATION_SEEDS,
                                                   seedResponsesAt(clock), clock)]
    /\ UNCHANGED << clock, kv, kvWriter, edge, disc, ful, hrs >>

\* the mutant of PutKV that also writes the response cache
PutKV_alsoCaches(i) ==
    /\ inv[i].rpc = "put"
    /\ kv' = JSONstringify(inv[i].payload)
    /\ kvWriter' = i
    /\ edge' = cachePut(edge, availabilityCacheKey(inv[i].url),
                        makeJSON(withSource("fresh", inv[i].payload),
                                 computeTtls(inv[i].payload)))
    /\ inv' = [inv EXCEPT ![i].rpc = "ok", ![i].ops = @ \cup { "kv.put" }]
    /\ UNCHANGED << clock, disc, ful, hrs >>

\* await putKV(env, 'availability.latest', payload, 60 * 15) succeeds
PutKV(i) ==
    /\ inv[i].rpc = "put"
    /\ kv' = JSONstringify(inv[i].payload)
    /\ kvWriter' = i
    /\ inv' = [inv EXCEPT ![i].rpc = "ok", ![i].ops = @ \cup { "kv.put" }]
    /\ UNCHANGED << clock, edge, disc, ful, hrs >>

\* the mutant of PutKVFails in which the rejected put has replaced the value
PutKVFails_valueReplaced(i) ==
    /\ inv[i].rpc = "put"
    /\ kv' = JSONstringify(inv[i].payload)
    /\ inv' = [inv EXCEPT ![i].rpc = "threw"]
    /\ UNCHANGED << clock, kvWriter, edge, disc, ful, hrs >>

\* the mutant of PutKVFails in which the rejection is swallowed and the
\* rebuild goes on to the response cache
PutKVFails_swallowed(i) ==
    /\ inv[i].rpc = "put"
    /\ inv' = [inv EXCEPT ![i].rpc = "ok"]
    /\ UNCHANGED << clock, kv, kvWriter, edge, disc, ful, hrs >>

\* the put is rejected: refreshAvailabilityKV throws, the store is as it was
PutKVFails(i) ==
    /\ inv[i].rpc = "put"
    /\ inv' = [inv EXCEPT ![i].rpc = "threw"]
    /\ UNCHANGED << clock, kv, kvWriter, edge, disc, ful, hrs >>


(***************************************************************************)
(* handleApiAvailability.                                                  *)
(***************************************************************************)
\* getKV: v ? JSON.parse(v) : null
getKV(v) == IF v = NoValue THEN NoValue ELSE JSONparse(v)

\* the mutant of kvResponse that tags the durable snapshot fresh
kvResponse_tagsFresh(cached) ==
    makeJSON(withSource("fresh", cached), computeTtls(cached))

\* worker.js:304-305
kvResponse(cached) ==
    LET payload == withSource("kv", cached)
    IN  makeJSON(payload, computeTtls(payload))

\* the mutant of freshResponse that leaves the rebuilt snapshot untagged
freshResponse_untagged(fresh) == makeJSON(fresh, computeTtls(fresh))

\* worker.js:309-310 and 332-333
freshResponse(fresh) ==
    LET freshPayload == withSource("fresh", fresh)
    IN  makeJSON(freshPayload, computeTtls(freshPayload))

\* worker.js:322
coldFreshResponse(fresh) == makeJSON(withSource("fresh", fresh), coldStartTtls)

\* worker.js:326-327
warmResponse(now) == makeJSON(warmPayload(now), computeTtls(warmPayload(now)))

\* a GET /api/availability arrives (it takes the lowest free invocation);
\* a forced one goes straight to the rebuild
Request(i, u) ==
    /\ inv[i].kind = "idle"
    /\ \A j \in 1..(i - 1) : inv[j].kind /= "idle"
    /\ inv' = [inv EXCEPT ![i] =
                 IF forceFlag(u)
                 THEN [idle EXCEPT !.kind = "request", !.url = u, !.pc = "refresh",
                                   !.mode = "forced", !.rpc = "discover"]
                 ELSE [idle EXCEPT !.kind = "request", !.url = u, !.pc = "match"]]
    /\ UNCHANGED << clock, kv, kvWriter, edge, disc, ful, hrs >>

\* the mutant of EdgeMatch that revalidates on a hit: it returns the entry
\* and starts a background rebuild
EdgeMatch_revalidatesOnHit(i) ==
    /\ inv[i].pc = "match"
    /\ LET edgeHit == edge[availabilityCacheKey(inv[i].url)]
       IN  inv' = [inv EXCEPT
                     ![i].ops = @ \cup { "cache.match" },
                     ![i].pc = IF edgeHit /= NoResponse THEN "done" ELSE "getKV",
                     ![i].resp = IF edgeHit /= NoResponse THEN edgeHit ELSE @,
                     ![i].mode = IF edgeHit /= NoResponse THEN "kv" ELSE @,
                     ![i].rpc = IF edgeHit /= NoResponse THEN "discover" ELSE @,
                     ![i].nbg = IF edgeHit /= NoResponse THEN 1 ELSE @]
    /\ UNCHANGED << clock, kv, kvWriter, edge, disc, ful, hrs >>

\* 1) const edgeHit = await cache.match(cacheKey); if (edgeHit) return edgeHit
EdgeMatch(i) ==
    /\ inv[i].pc = "match"
    /\ LET edgeHit == edge[availabilityCacheKey(inv[i].url)]
       IN  inv' = [inv EXCEPT
                     ![i].ops = @ \cup { "cache.match" },
                     ![i].pc = IF edgeHit /= NoResponse THEN "done" ELSE "getKV",
                     ![i].resp = IF edgeHit /= NoResponse THEN edgeHit ELSE @]
    /\ UNCHANGED << clock, kv, kvWriter, edge, disc, ful, hrs >>

\* 2) the KV snapshot, with the background refresh and the seeding put, or
\* 3) the warm start: the background build and the placeholder
\* the mutant of ReadKV that starts no rebuild on a cold start while another
\* cold-start rebuild is in discovery
ReadKV_singleFlight(i) ==
    /\ inv[i].pc = "getKV"
    /\ LET cached == getKV(kv)
           busy == \E j \in Inv \ {i} : inv[j].mode = "cold" /\ inv[j].rpc = "discover"
       IN  inv' = [inv EXCEPT
                     ![i].ops = @ \cup { "kv.get" },
                     ![i].pc = "done",
                     ![i].mode = IF cached /= NoValue THEN "kv" ELSE "cold",
                     ![i].rpc = IF cached = NoValue /\ busy THEN "uncached" ELSE "discover",
                     ![i].nbg = IF cached = NoValue /\ busy THEN @ ELSE @ + 1,
                     ![i].wpc = IF cached /= NoValue THEN "pending" ELSE @,
                     ![i].wres = IF cached /= NoValue THEN kvResponse(cached) ELSE @,
                     ![i].resp = IF cached /= NoValue THEN kvResponse(cached)
                                 ELSE warmResponse(clock)]
    /\ UNCHANGED << clock, kv, kvWriter, edge, disc, ful, hrs >>

\* the mutant of ReadKV that seeds the response cache with whatever it
\* returns, the placeholder included
ReadKV_seedsWarmup(i) ==
    /\ inv[i].pc = "getKV"
    /\ LET cached == getKV(kv)
           res == IF cached /= NoValue THEN kvResponse(cached) ELSE warmResponse(clock)
       IN  inv' = [inv EXCEPT
                     ![i].ops = @ \cup { "kv.get" },
                     ![i].pc = "done",
                     ![i].mode = IF cached /= NoValue THEN "kv" ELSE "cold",
                     ![i].rpc = "discover",
                     ![i].nbg = @ + 1,
                     ![i].wpc = "pending",
                     ![i].wres = res,
                     ![i].resp = res]
    /\ UNCHANGED << clock, kv, kvWriter, edge, disc, ful, hrs >>

ReadKV(i) ==
    /\ inv[i].pc = "getKV"
    /\ LET cached == getKV(kv)
       IN  inv' = [inv EXCEPT
                     ![i].ops = @ \cup { "kv.get" },
                     ![i].pc = "done",
                     ![i].mode = IF cached /= NoValue THEN "kv" ELSE "cold",
                     ![i].rpc = "discover",
                     ![i].nbg = @ + 1,
                     ![i].wpc = IF cached /= NoValue THEN "pending" ELSE @,
                     ![i].wres = IF cached /= NoValue THEN kvResponse(cached) ELSE @,
                     ![i].resp = IF cached /= NoValue THEN kvResponse(cached)
                                 ELSE warmResponse(clock)]
    /\ UNCHANGED << clock, kv, kvWriter, edge, disc, ful, hrs >>

\* the mutant of BackgroundCachePut whose put never reaches the cache
BackgroundCachePut_putDropped(i) ==
    /\ inv[i].mode \in {"kv", "cold"}
    /\ inv[i].rpc = "ok"
    /\ inv' = [inv EXCEPT ![i].rpc = "cached", ![i].ops = @ \cup { "cache.put" }]
    /\ UNCHANGED << clock, kv, kvWriter, edge, disc, ful, hrs >>

\* the background task after refreshAvailabilityKV: await cache.put(cacheKey, freshRes)
BackgroundCachePut(i) ==
    /\ inv[i].mode \in {"kv", "cold"}
    /\ inv[i].rpc = "ok"
    /\ edge' = cachePut(edge, availabilityCacheKey(inv[i].url),
                        IF inv[i].mode = "kv" THEN freshResponse(inv[i].payload)
                        ELSE coldFreshResponse(inv[i].payload))
    /\ inv' = [inv EXCEPT ![i].rpc = "cached", ![i].ops = @ \cup { "cache.put" }]
    /\ UNCHANGED << clock, kv, kvWriter, disc, ful, hrs >>

\* that cache.put is rejected: the catch of the task swallows it
BackgroundCachePutFails(i) ==
    /\ inv[i].mode \in {"kv", "cold"}
    /\ inv[i].rpc = "ok"
    /\ inv' = [inv EXCEPT ![i].rpc = "uncached"]
    /\ UNCHANGED << clock, kv, kvWriter, edge, disc, ful, hrs >>

\* Force: the rebuild has returned; schedule the cache put and return freshRes
ForcedReturn(i) ==
    /\ inv[i].pc = "refresh"
    /\ inv[i].rpc = "ok"
    /\ inv' = [inv EXCEPT ![i].pc = "done",
                          ![i].resp = freshResponse(inv[i].payload),
                          ![i].wpc = "pending",
                          ![i].wres = freshResponse(inv[i].payload)]
    /\ UNCHANGED << clock, kv, kvWriter, edge, disc, ful, hrs >>

\* Force: the rebuild threw; the catch of fetch answers 500
ForcedThrows(i) ==
    /\ inv[i].pc = "refresh"
    /\ inv[i].rpc = "threw"
    /\ inv' = [inv EXCEPT ![i].pc = "done", ![i].resp = errorResponse]
    /\ UNCHANGED << clock, kv, kvWriter, edge, disc, ful, hrs >>

\* a ctx.waitUntil(cache.put(cacheKey, res.clone())) lands
WaitUntilPut(i) ==
    /\ inv[i].wpc = "pending"
    /\ edge' = cachePut(edge, availabilityCacheKey(inv[i].url), inv[i].wres)
    /\ inv' = [inv EXCEPT ![i].wpc = "done", ![i].ops = @ \cup { "waitUntil.cache.put" }]
    /\ UNCHANGED << clock, kv, kvWriter, disc, ful, hrs >>

\* or is rejected, with nobody to tell
WaitUntilPutFails(i) ==
    /\ inv[i].wpc = "pending"
    /\ inv' = [inv EXCEPT ![i].wpc = "rejected"]
    /\ UNCHANGED << clock, kv, kvWriter, edge, disc, ful, hrs >>

\* the cron trigger: scheduled() awaits refreshAvailabilityKV(env)
Scheduled(i) ==
    /\ inv[i].kind = "idle"
    /\ \A j \in 1..(i - 1) : inv[j].kind /= "idle"
    /\ inv' = [inv EXCEPT ![i] = [idle EXCEPT !.kind = "cron", !.pc = "scheduled",
                                              !.mode = "cron", !.rpc = "discover"]]
    /\ UNCHANGED << clock, kv, kvWriter, edge, disc, ful, hrs >>

\* an invocation is over when its handler has returned and its tasks have settled
Settled(i) ==
    /\ inv[i].kind /= "idle"
    /\ inv[i].pc \in {"done", "scheduled"}
    /\ inv[i].rpc \in (IF inv[i].mode \in {"kv", "cold"} THEN {"cached", "uncached", "threw"}
                       ELSE {"none", "ok", "threw"})
    /\ inv[i].wpc /= "pending"

Finish(i) ==
    /\ Settled(i)
    /\ inv' = [inv EXCEPT ![i] = idle]
    /\ kvWriter' = IF kvWriter = i THEN 0 ELSE kvWriter
    /\ UNCHANGED << clock, kv, edge, disc, ful, hrs >>

(***************************************************************************)
(* The environment: time passes, a response-cache entry reaches the end of *)
(* its s-maxage, the durable entry reaches its expirationTtl (15 minutes,  *)
(* longer than an invocation lives: it expires between invocations).       *)
(***************************************************************************)
Tick ==
    /\ clock < MaxClock
    /\ clock' = clock + 1
    /\ UNCHANGED << kv, kvWriter, edge, inv, disc, ful, hrs >>

EdgeExpire(k) ==
    /\ edge[k] /= NoResponse
    /\ edge' = [edge EXCEPT ![k] = NoResponse]
    /\ UNCHANGED << clock, kv, kvWriter, inv, disc, ful, hrs >>

KVExpire ==
    /\ kv /= NoValue
    /\ \A i \in Inv : inv[i].kind = "idle"
    /\ kv' = NoValue
    /\ kvWriter' = 0
    /\ UNCHANGED << clock, edge, inv, disc, ful, hrs >>

Next ==
    \/ \E i \in Inv, u \in Urls : Request(i, u)
    \/ \E i \in Inv : EdgeMatch(i)
    \/ \E i \in Inv : ReadKV(i)
    \/ \E i \in Inv : Discover(i)
    \/ \E i \in Inv : Fulfil(i)
    \/ \E i \in Inv : PutKV(i)
    \/ \E i \in Inv : PutKVFails(i)
    \/ \E i \in Inv : BackgroundCachePut(i)
    \/ \E i \in Inv : BackgroundCachePutFails(i)
    \/ \E i \in Inv : ForcedReturn(i)
    \/ \E i \in Inv : ForcedThrows(i)
    \/ \E i \in Inv : WaitUntilPut(i)
    \/ \E i \in Inv : WaitUntilPutFails(i)
    \/ \E i \in Inv : Scheduled(i)
    \/ \E i \in Inv : Finish(i)
    \/ \E k \in AllUrls : EdgeExpire(k)
    \/ Tick
    \/ KVExpire

Spec == Init /\ [][Next]_vars

(***************************************************************************)
(* The same machine with the guarantee of ctx.waitUntil (and of the        *)
(* awaited handler): the runtime keeps an invocation alive until the       *)
(* promises it registered have settled, so a rebuild that can take its     *)
(* next step (an upstream answer, the outcome of a put) eventually takes   *)
(* it.  Nothing is assumed about which outcome it is.  The wall clock only *)
(* stamps the snapshots and selects what the upstream reports: here it is  *)
(* any one instant, and does not advance.                                  *)
(***************************************************************************)
RebuildStep(i) ==
    \/ Discover(i)
    \/ Fulfil(i)
    \/ PutKV(i)
    \/ PutKVFails(i)
    \/ BackgroundCachePut(i)
    \/ BackgroundCachePutFails(i)

InitLive ==
    /\ clock \in 0..MaxClock
    /\ kv = NoValue
    /\ kvWriter = 0
    /\ edge = [k \in AllUrls |-> NoResponse]
    /\ inv = [i \in Inv |-> idle]
    /\ disc = noDiscovery
    /\ ful = noFulfillment
    /\ hrs = noHours

NextLive ==
    \/ \E i \in Inv, u \in Urls : Request(i, u)
    \/ \E i \in Inv : EdgeMatch(i)
    \/ \E i \in Inv : ReadKV(i)
    \/ \E i \in Inv : RebuildStep(i)
    \/ \E i \in Inv : ForcedReturn(i)
    \/ \E i \in Inv : ForcedThrows(i)
    \/ \E i \in Inv : WaitUntilPut(i)
    \/ \E i \in Inv : WaitUntilPutFails(i)
    \/ \E i \in Inv : Scheduled(i)
    \/ \E i \in Inv : Finish(i)
    \/ \E k \in AllUrls : EdgeExpire(k)
    \/ KVExpire

SpecLive == InitLive /\ [][NextLive]_vars /\ \A i \in Inv : WF_vars(RebuildStep(i))

(***************************************************************************)
(* The cache key on its own: requests over the wider URLs, the clock       *)
(* standing still and nothing failing.                                     *)
(***************************************************************************)
NextKey ==
    \/ \E i \in Inv, u \in KeyUrls : Request(i, u)
    \/ \E i \in Inv : EdgeMatch(i)
    \/ \E i \in Inv : ReadKV(i)
    \/ \E i \in Inv : Discover(i)
    \/ \E i \in Inv : Fulfil(i)
    \/ \E i \in Inv : PutKV(i)
    \/ \E i \in Inv : BackgroundCachePut(i)
    \/ \E i \in Inv : ForcedReturn(i)
    \/ \E i \in Inv : ForcedThrows(i)
    \/ \E i \in Inv : WaitUntilPut(i)
    \/ \E i \in Inv : Finish(i)

SpecKey == Init /\ [][NextKey]_vars

(***************************************************************************)
(* fetchIphonePartsForFamilies on its own, one family per step, over every *)
(* family list and every outcome of the page fetches within the bounds.    *)
(***************************************************************************)
ProductChoices ==
    { iphone(1), iphone(2), [partNumber |-> 1, category |-> "accessory"],
      [partNumber |-> 0, category |-> "iphone"] }

PageChoices ==
    { pageDown, [kind |-> "nometrics"], [kind |-> "badjson"] }
        \cup { pageOf(products) : products \in SeqsUpTo(ProductChoices, MaxProducts) }

\* the configured families: the first n default slugs
FamilyLists == { SubSeq(DEFAULT_FAMILIES, 1, n) : n \in 0..MaxFamilies }

InitDiscover ==
    /\ clock = 0
    /\ kv = NoValue
    /\ kvWriter = 0
    /\ edge = [k \in AllUrls |-> NoResponse]
    /\ inv = [i \in Inv |-> idle]
    /\ ful = noFulfillment
    /\ hrs = noHours
    /\ \E families \in FamilyLists :
         \E pages \in [1..Len(families) -> PageChoices] :
            disc = [ families |-> families, pages |-> pages, issued |-> 0,
                     k |-> 0, parts |-> <<>>, result |-> "running" ]

\* the loop enters the body for the next family and calls
\* fetchPartsFromBuyPage, which issues the fetch of its page: every earlier
\* family's fetch has been awaited
IssueFetch ==
    /\ disc.result = "running"
    /\ disc.issued < Len(disc.families)
    /\ disc.issued = disc.k
    /\ disc' = [disc EXCEPT !.issued = @ + 1]
    /\ UNCHANGED << clock, kv, kvWriter, edge, inv, ful, hrs >>

\* the awaited fetch answers: the rest of the body pushes the parts not
\* seen yet, or ignores the family that threw
DiscoverFamily ==
    /\ disc.result = "running"
    /\ disc.k < Len(disc.families)
    /\ disc.issued = disc.k + 1
    /\ disc' = [disc EXCEPT !.k = @ + 1,
                            !.parts = mergeFamily(@, disc.families[disc.k + 1],
                                                  disc.pages[disc.k + 1])]
    /\ UNCHANGED << clock, kv, kvWriter, edge, inv, ful, hrs >>

\* after the loop: throw when no part was discovered, else return the parts
DiscoverEnds ==
    /\ disc.result = "running"
    /\ disc.k = Len(disc.families)
    /\ disc' = [disc EXCEPT !.result = IF Len(disc.parts) = 0 THEN "threw" ELSE "returned"]
    /\ UNCHANGED << clock, kv, kvWriter, edge, inv, ful, hrs >>

NextDiscover == IssueFetch \/ DiscoverFamily \/ DiscoverEnds

SpecDiscover == InitDiscover /\ [][NextDiscover]_vars

(***************************************************************************)
(* The seed loop of buildAvailabilityPayload and mergeStores on their own, *)
(* one seed per step, over every list of seeds and every response to each  *)
(* query within the bounds.                                                *)
(***************************************************************************)
rawStore(storeNumber, city, storeName) ==
    [ storeNumber |-> storeNumber, country |-> "TW", city |-> city,
      storeName |-> storeName, partsAvailability |-> << >> ]

\* two stores with one storeNumber, a store without storeNumber, and a
\* store whose storeNumber reads like the composite key of the latter
StoreChoices ==
    { rawStore("R713", "Taipei", "Xinyi A13"),
      rawStore("R713", "Taipei", "Taipei 101"),
      rawStore("", "Taipei", "Xinyi A13"),
      rawStore("TW:Taipei:Xinyi A13", "Taipei", "Taipei 101") }

SeedResponseChoices ==
    { [kind |-> "http"], [kind |-> "badjson"] }
        \cup { [kind |-> "ok", stores |-> stores] :
                 stores \in SeqsUpTo(StoreChoices, MaxStores) }

\* conf.LOCATION_SEEDS: the first n of these seeds
SeedLists == { SubSeq(<< "Taiwan", "Taipei", "Kaohsiung" >>, 1, n) : n \in 0..MaxSeeds }

InitFulfil ==
    /\ clock = 0
    /\ kv = NoValue
    /\ kvWriter = 0
    /\ edge = [k \in AllUrls |-> NoResponse]
    /\ inv = [i \in Inv |-> idle]
    /\ disc = noDiscovery
    /\ hrs = noHours
    /\ \E seeds \in SeedLists :
         \E responses \in [1..Len(seeds) -> SeedResponseChoices] :
            ful = [ seeds |-> seeds, responses |-> responses, k |-> 0,
                    storesLists |-> <<>>, stores |-> <<>>, result |-> "running" ]

\* the body of the loop for the next seed
QuerySeed ==
    /\ ful.result = "running"
    /\ ful.k < Len(ful.seeds)
    /\ ful' = [ful EXCEPT !.k = @ + 1,
                          !.storesLists = pushStores(@, << 1 >>, ful.seeds[ful.k + 1],
                                                     ful.responses[ful.k + 1])]
    /\ UNCHANGED << clock, kv, kvWriter, edge, inv, disc, hrs >>

\* after the loop: const stores = mergeStores(storesLists)
MergeStores ==
    /\ ful.result = "running"
    /\ ful.k = Len(ful.seeds)
    /\ ful' = [ful EXCEPT !.stores = mergeStores(ful.storesLists), !.result = "merged"]
    /\ UNCHANGED << clock, kv, kvWriter, edge, inv, disc, hrs >>

NextFulfil == QuerySeed \/ MergeStores

SpecFulfil == InitFulfil /\ [][NextFulfil]_vars

(***************************************************************************)
(* computeOpenNow on its own, one hours row per step, over the weekdays,   *)
(* times of day and hours rows within the bounds.                          *)
(***************************************************************************)
timeToken(marker, h, m) == [kind |-> "time", marker |-> marker, h |-> h, m |-> m]

\* 10:00, 下午9:00, 22:00, 2:00, 上午12:30, and a text that is no time
TimeTokens ==
    { timeToken("", 10, 0), timeToken("pm", 9, 0), timeToken("", 22, 0),
      timeToken("", 2, 0), timeToken("am", 12, 30), [kind |-> "text"] }

\* Monday to Friday; Sunday; Saturday to Sunday
DayFields ==
    { << [a |-> 1, b |-> 5] >>, << [a |-> 0, b |-> -1] >>, << [a |-> 6, b |-> 0] >> }

HoursRowChoices ==
    { [days |-> days, timings |-> timings] :
        days \in DayFields, timings \in SeqsUpTo(TimeTokens, 2) }

\* 00:15, 01:00, 15:00, 21:00, 22:00 in minutes of the day
MinutesChoices == { 15, 60, 900, 1260, 1320 }

\* Sunday and Monday
WeekdayChoices == { 0, 1 }

InitOpen ==
    /\ clock = 0
    /\ kv = NoValue
    /\ kvWriter = 0
    /\ edge = [k \in AllUrls |-> NoResponse]
    /\ inv = [i \in Inv |-> idle]
    /\ disc = noDiscovery
    /\ ful = noFulfillment
    /\ \E weekday \in WeekdayChoices, minutes \in MinutesChoices :
         \E hoursRows \in SeqsUpTo(HoursRowChoices, MaxRows) :
            hrs = [ weekday |-> weekday, minutes |-> minutes, hoursRows |-> hoursRows,
                    k |-> 0, isOpen |-> FALSE, todayHours |-> <<>>,
                    result |-> "running" ]

\* the body of the loop for the next row: continue, or set todayHours and
\* isOpen and break
OpenRow ==
    /\ hrs.result = "running"
    /\ hrs.k < Len(hrs.hoursRows)
    /\ LET row == hrs.hoursRows[hrs.k + 1]
       IN  IF rowSkipped(row, hrs.weekday)
           THEN hrs' = [hrs EXCEPT !.k = @ + 1]
           ELSE hrs' = [hrs EXCEPT
                          !.k = @ + 1,
                          !.todayHours = << startRawOf(row), endRawOf(row) >>,
                          !.isOpen = isOpenAt(parseCNTimeToken(startRawOf(row)),
                                              parseCNTimeToken(endRawOf(row)),
                                              hrs.minutes),
                          !.result = "done"]
    /\ UNCHANGED << clock, kv, kvWriter, edge, inv, disc, ful >>

\* the loop ends without a row for today: return { isOpen, todayHours }
OpenEnds ==
    /\ hrs.result = "running"
    /\ hrs.k = Len(hrs.hoursRows)
    /\ hrs' = [hrs EXCEPT !.result = "done"]
    /\ UNCHANGED << clock, kv, kvWriter, edge, inv, disc, ful >>

NextOpen == OpenRow \/ OpenEnds

SpecOpen == InitOpen /\ [][NextOpen]_vars


(***************************************************************************)
(* Properties.                                                             *)
(***************************************************************************)
\* the handler of invocation i returns its response in this step
Returns(i) == inv[i].resp = NoResponse /\ inv'[i].resp /= NoResponse

\* body is the snapshot, field for field, with the source tag src
Carries(body, src, snapshot) ==
    /\ DOMAIN body = DOMAIN snapshot \cup {"source"}
    /\ body.source = src
    /\ \A f \in DOMAIN snapshot : body[f] = snapshot[f]

IsContentParam(p) == p[1] \notin {"force", "refresh"}

\* the request URL without its force and refresh parameters
canonicalKey(u) == SelectSeq(u, IsContentParam)

NonForced(i) == inv[i].kind = "request" /\ ~forceFlag(inv[i].url)

\* C1 as stated: a forced request that answers 200 answers the snapshot of
\* the rebuild it ran itself, tagged fresh, and at that moment the durable
\* store holds exactly that snapshot.
C1_StoreHoldsSnapshotAtReturn ==
    [][\A i \in Inv :
          (inv[i].kind = "request" /\ forceFlag(inv[i].url)
             /\ Returns(i) /\ inv'[i].resp.status = 200)
          => /\ inv[i].rpc = "ok"
             /\ Carries(inv'[i].resp.body, "fresh", inv[i].payload)
             /\ kv' /= NoValue
             /\ getKV(kv') = inv[i].payload]_vars

\* C1 as amended: a forced request that answers 200 answers the snapshot of
\* the rebuild it ran itself, tagged fresh; its own put of that snapshot has
\* completed by then, and the durable store holds exactly that snapshot
\* unless another invocation has written the store since that put.
C1_OwnPutCompletedAtReturn ==
    [][\A i \in Inv :
          (inv[i].kind = "request" /\ forceFlag(inv[i].url)
             /\ Returns(i) /\ inv'[i].resp.status = 200)
          => /\ inv[i].rpc = "ok"
             /\ Carries(inv'[i].resp.body, "fresh", inv[i].payload)
             /\ "kv.put" \in inv[i].ops
             /\ (kvWriter' = i => kv' /= NoValue /\ getKV(kv') = inv[i].payload)]_vars

\* a forced request has answered 200 while the response cache held an entry
C1_Witness ==
    \E i \in Inv :
        /\ inv[i].kind = "request" /\ forceFlag(inv[i].url)
        /\ inv[i].resp.status = 200
        /\ edge[canonicalKey(inv[i].url)] /= NoResponse
        /\ inv[i].wpc = "pending"


\* the non-forced request i, past its miss in the response cache, reads the
\* durable store in this step
ReadsDurable(i) ==
    /\ NonForced(i)
    /\ inv[i].ops = { "cache.match" }
    /\ inv[i].resp = NoResponse
    /\ inv'[i] /= inv[i]

\* the background task of i, started on path mode, persists its rebuilt
\* snapshot and then writes it, tagged fresh, under the canonical key
BackgroundPersistsThenCaches(i, mode) ==
    /\ (inv[i].mode = mode /\ inv[i].rpc = "put" /\ inv'[i].rpc = "ok")
          => kv' /= NoValue /\ getKV(kv') = inv[i].payload
    /\ (inv[i].mode = mode /\ inv[i].rpc = "ok" /\ inv'[i].rpc = "cached")
          => /\ "kv.put" \in inv[i].ops
             /\ edge'[canonicalKey(inv[i].url)].status = 200
             /\ Carries(edge'[canonicalKey(inv[i].url)].body, "fresh", inv[i].payload)

\* C2: a non-forced request that missed the response cache and finds the
\* snapshot S in the durable store answers S tagged kv in that very step,
\* before any upstream fetch has answered, and schedules exactly one
\* background rebuild; that rebuild, when it succeeds, puts its snapshot in
\* the durable store and then in the response cache, tagged fresh.
C2_DurableHit ==
    [][\A i \in Inv :
          /\ (ReadsDurable(i) /\ kv /= NoValue)
                => /\ Returns(i)
                   /\ inv'[i].resp.status = 200
                   /\ Carries(inv'[i].resp.body, "kv", getKV(kv))
                   /\ inv'[i].nbg = 1
                   /\ inv'[i].rpc = "discover"
                   /\ inv'[i].payload = NoValue
                   /\ inv'[i].ops = { "cache.match", "kv.get" }
          /\ BackgroundPersistsThenCaches(i, "kv")]_vars

\* a durable-hit request has answered kv and its background rebuild has
\* written the fresh entry
C2_Witness ==
    \E i \in Inv :
        /\ NonForced(i)
        /\ inv[i].resp.status = 200 /\ inv[i].resp.body.source = "kv"
        /\ inv[i].rpc = "cached"
        /\ inv[i].nbg = 1

\* the placeholder: no models, no stores, no availability
IsPlaceholder(body) ==
    /\ body.source = "warmup"
    /\ body.models = <<>> /\ body.stores = <<>> /\ body.availability = <<>>

\* C3: a non-forced request that missed the response cache and finds the
\* durable store empty answers the placeholder tagged warmup in that very
\* step, before any upstream fetch has answered, and schedules exactly one
\* background rebuild-persist-cache task; whatever that task does later
\* (succeed, fail, or never finish) the response stays as it was returned.
C3_ColdStart ==
    [][\A i \in Inv :
          /\ (ReadsDurable(i) /\ kv = NoValue)
                => /\ Returns(i)
                   /\ inv'[i].resp.status = 200
                   /\ IsPlaceholder(inv'[i].resp.body)
                   /\ inv'[i].nbg = 1
                   /\ inv'[i].rpc = "discover"
                   /\ inv'[i].payload = NoValue
          /\ (inv[i].mode = "cold" /\ inv'[i].kind /= "idle")
                => inv'[i].resp = inv[i].resp /\ inv'[i].nbg = 1
          /\ BackgroundPersistsThenCaches(i, "cold")]_vars

\* two cold-start requests hold the placeholder, the rebuild of one having
\* succeeded and the rebuild of the other having failed
C3_Witness ==
    \E i, j \in Inv :
        /\ inv[i].mode = "cold" /\ inv[i].rpc = "cached"
        /\ inv[j].mode = "cold" /\ inv[j].rpc = "threw"
        /\ IsPlaceholder(inv[i].resp.body) /\ IsPlaceholder(inv[j].resp.body)

\* C4: a non-forced request that finds an entry under the canonical key
\* returns that entry as it is stored; it does not read the durable store,
\* schedules nothing and writes neither tier, then or later.
C4_EdgeHit ==
    [][\A i \in Inv :
          /\ (NonForced(i) /\ inv[i].pc = "match" /\ inv'[i] /= inv[i]
                /\ edge[canonicalKey(inv[i].url)] /= NoResponse)
                => /\ Returns(i)
                   /\ inv'[i].resp = edge[canonicalKey(inv[i].url)]
                   /\ inv'[i].ops = { "cache.match" }
                   /\ inv'[i].nbg = 0 /\ inv'[i].rpc = "none" /\ inv'[i].wpc = "none"
                   /\ kv' = kv /\ edge' = edge
          /\ (inv[i].mode = "none" /\ inv[i].resp /= NoResponse /\ inv'[i] /= inv[i])
                => inv'[i] = idle /\ kv' = kv /\ edge' = edge]_vars

\* an edge hit has returned an entry stored with the tag kv
C4_Witness ==
    \E i \in Inv :
        /\ NonForced(i) /\ inv[i].mode = "none" /\ inv[i].pc = "done"
        /\ inv[i].resp.status = 200 /\ inv[i].resp.body.source = "kv"
        /\ kv /= NoValue


Background(i) == inv[i].mode \in {"kv", "cold"}

\* the rebuild of i throws in this step (discovery found no part, or the
\* put was rejected)
RebuildThrows(i) == inv[i].rpc /= "threw" /\ inv'[i].rpc = "threw"

\* C5 as stated: when a background rebuild throws, the client still has its
\* 200 response, unchanged, the rebuild has written nothing to the response
\* cache, and the durable store holds what it held when the request read it
\* (the snapshot answered on the durable-hit path, nothing on a cold start).
C5_StoreAsBeforeAttempt ==
    [][\A i \in Inv :
          (Background(i) /\ RebuildThrows(i))
          => /\ inv'[i].resp = inv[i].resp /\ inv[i].resp.status = 200
             /\ "cache.put" \notin inv'[i].ops
             /\ (inv[i].mode = "cold" => kv' = NoValue)
             /\ (inv[i].mode = "kv" =>
                    kv' /= NoValue /\ Carries(inv[i].resp.body, "kv", getKV(kv')))]_vars

\* C5 as amended: when a background rebuild throws, the client still has
\* its 200 response, unchanged, and the rebuild itself has written neither
\* the durable store nor the response cache: no step of it up to the throw
\* changes either tier (the store holds what it held before the attempt
\* unless another invocation wrote it meanwhile).
C5_FailedRebuildWritesNothing ==
    [][\A i \in Inv :
          /\ (Background(i) /\ RebuildThrows(i))
                => /\ inv'[i].resp = inv[i].resp /\ inv[i].resp.status = 200
                   /\ inv'[i].ops \cap { "kv.put", "cache.put" } = {}
                   /\ kvWriter' /= i
          /\ (Background(i) /\ inv'[i].rpc /= inv[i].rpc
                /\ inv'[i].rpc \in {"fulfil", "put", "threw"})
                => kv' = kv /\ edge' = edge
          /\ (Background(i) /\ inv[i].rpc = "threw" /\ inv'[i].kind /= "idle")
                => /\ inv'[i].rpc = "threw" /\ inv'[i].resp = inv[i].resp
                   /\ inv'[i].ops \cap { "kv.put", "cache.put" } = {}]_vars

\* the put of a background rebuild was rejected while the durable store
\* held a snapshot
C5_Witness ==
    \E i \in Inv :
        /\ Background(i) /\ inv[i].rpc = "threw"
        /\ inv[i].payload /= NoValue
        /\ kv /= NoValue
        /\ inv[i].resp.status = 200

Forced(i) == inv[i].kind = "request" /\ forceFlag(inv[i].url)

\* C6: a forced request whose rebuild throws answers 500 with a JSON error
\* body (and a forced request answers 500 only then); the request has
\* written neither tier, scheduled no cache put, and no step of it changes
\* either tier.
C6_ForcedFailure ==
    [][\A i \in Inv :
          /\ (Forced(i) /\ Returns(i))
                => (inv[i].rpc = "threw" <=> inv'[i].resp.status = 500)
          /\ (Forced(i) /\ Returns(i) /\ inv[i].rpc = "threw")
                => /\ DOMAIN inv'[i].resp.body = {"error"}
                   /\ inv'[i].ops = {}
                   /\ inv'[i].wpc = "none"
                   /\ kvWriter' /= i
          /\ (Forced(i) /\ inv'[i] /= inv[i]
                /\ (inv'[i].rpc \in {"fulfil", "put", "threw"} \/ inv[i].rpc = "threw"))
                => kv' = kv /\ edge' = edge]_vars

\* a forced request has answered 500 while both tiers held an entry
C6_Witness ==
    \E i \in Inv :
        /\ Forced(i) /\ inv[i].resp.status = 500
        /\ kv /= NoValue
        /\ edge[canonicalKey(inv[i].url)] /= NoResponse

\* the availability responses in the system: returned, waiting to be put,
\* or stored in the response cache
Responses ==
    { r \in { inv[i].resp : i \in Inv } \cup { inv[i].wres : i \in Inv }
            \cup { edge[k] : k \in DOMAIN edge } : r.status = 200 }

\* C7 as stated: of two availability responses, one whose snapshot has a
\* buyable or available record and one whose snapshot has none, the first
\* has the strictly shorter edge lifetime and stale-while-revalidate window.
C7_ShorterWhenAvailable ==
    \A r1, r2 \in Responses :
        (hasAvail(r1.body) /\ ~hasAvail(r2.body))
        => /\ r1.cacheControl.edgeMaxAge < r2.cacheControl.edgeMaxAge
           /\ r1.cacheControl.swr < r2.cacheControl.swr

\* C8: a cron invocation runs the rebuild and nothing else: it reads no
\* tier, touches the response cache in no step, returns nothing, and the
\* step in which its put succeeds leaves the durable store holding the
\* snapshot it built; the trigger can fire whenever an invocation is free,
\* whatever the tiers hold.
C8_CronRebuildsAndPersists ==
    [][\A i \in Inv :
          /\ (inv'[i].kind = "cron")
                => /\ inv'[i].ops \subseteq { "kv.put" }
                   /\ inv'[i].resp = NoResponse /\ inv'[i].wpc = "none"
                   /\ inv'[i].nbg = 0
          /\ ((inv[i].kind = "cron" \/ inv'[i].kind = "cron") /\ inv'[i] /= inv[i])
                => edge' = edge
          /\ (inv[i].kind = "cron" /\ inv'[i].rpc = "ok" /\ inv[i].rpc /= "ok")
                => /\ kv' /= NoValue /\ getKV(kv') = inv[i].payload
                   /\ inv[i].payload /= NoValue
          /\ (inv[i].kind = "idle" /\ \A j \in 1..(i - 1) : inv[j].kind /= "idle")
                => ENABLED Scheduled(i)]_vars

\* a cron rebuild has replaced the durable snapshot while a read request
\* was in progress and the response cache held an entry
C8_Witness ==
    \E i, j \in Inv :
        /\ inv[i].kind = "cron" /\ inv[i].rpc = "ok" /\ kvWriter = i
        /\ inv[j].kind = "request" /\ inv[j].resp = NoResponse
        /\ \E k \in DOMAIN edge : edge[k] /= NoResponse


\* u and v are the same list of parameters once the force and refresh
\* parameters of both are set aside
RECURSIVE DiffersOnlyInCachingParams(_, _)
DiffersOnlyInCachingParams(u, v) ==
    \/ u = <<>> /\ v = <<>>
    \/ u /= <<>> /\ ~IsContentParam(Head(u)) /\ DiffersOnlyInCachingParams(Tail(u), v)
    \/ v /= <<>> /\ ~IsContentParam(Head(v)) /\ DiffersOnlyInCachingParams(u, Tail(v))
    \/ /\ u /= <<>> /\ v /= <<>> /\ Head(u) = Head(v)
       /\ DiffersOnlyInCachingParams(Tail(u), Tail(v))

\* C9: the URLs of two requests that differ only in force and refresh
\* parameters have the same cache key; the put of a forced request lands
\* under that key, and while the entry it wrote is there a non-forced
\* request for such a URL is an edge hit that returns that very entry,
\* tagged fresh.
C9_SameKeyAcrossForce ==
    [][\A i, j \in Inv :
          /\ (inv'[i].kind = "request" /\ inv'[j].kind = "request"
                /\ DiffersOnlyInCachingParams(inv'[i].url, inv'[j].url))
                => availabilityCacheKey(inv'[i].url) = availabilityCacheKey(inv'[j].url)
          /\ (Forced(i) /\ inv[i].wpc = "pending" /\ inv'[i].wpc = "done")
                => /\ edge'[availabilityCacheKey(inv[i].url)] = inv[i].wres
                   /\ inv[i].wres.body.source = "fresh"
          /\ (Forced(i) /\ inv[i].wpc = "done"
                /\ edge[availabilityCacheKey(inv[i].url)] = inv[i].wres
                /\ NonForced(j) /\ inv[j].pc = "match" /\ inv'[j] /= inv[j]
                /\ DiffersOnlyInCachingParams(inv[i].url, inv[j].url))
                => /\ Returns(j)
                   /\ inv'[j].resp = inv[i].wres
                   /\ inv'[j].resp.body.source = "fresh"
                   /\ inv'[j].ops = { "cache.match" }]_vars

\* a non-forced request for ?t=1 has returned the entry that a forced
\* request for another URL with the same content parameter wrote
C9_Witness ==
    \E i, j \in Inv :
        /\ Forced(i) /\ inv[i].wpc = "done"
        /\ NonForced(j) /\ inv[j].mode = "none" /\ inv[j].pc = "done"
        /\ inv[j].resp = inv[i].wres
        /\ inv[i].url /= inv[j].url
        /\ DiffersOnlyInCachingParams(inv[i].url, inv[j].url)
        /\ Len(inv[j].url) > 0

(***************************************************************************)
(* Discovery, against the pages as fetched.                                *)
(***************************************************************************)
Qualifies(p) == p.partNumber /= 0 /\ p.category = "iphone"

\* where partNumber pn is listed among the first k families: <<f, n>> is
\* the n-th product of the page of the f-th family
Listings(pn, k) ==
    { pos \in (1..k) \X (1..MaxProducts + 1) :
        /\ disc.pages[pos[1]].kind = "ok"
        /\ pos[2] <= Len(disc.pages[pos[1]].products)
        /\ Qualifies(disc.pages[pos[1]].products[pos[2]])
        /\ disc.pages[pos[1]].products[pos[2]].partNumber = pn }

Before(p, q) == p[1] < q[1] \/ (p[1] = q[1] /\ p[2] < q[2])

FirstListing(pn, k) ==
    CHOOSE p \in Listings(pn, k) : \A q \in Listings(pn, k) : p = q \/ Before(p, q)

PartNumbers == { p.partNumber : p \in ProductChoices }

ListedPartNumbers(k) == { pn \in PartNumbers : Listings(pn, k) /= {} }

\* C10: after any number k of families, and so when the run returns, the
\* merged list has no two parts with the same partNumber; it holds exactly
\* the partNumbers listed by the families that answered, each with the slug
\* of the first family that lists it, in the order of their first listings.
C10_MergedPartsUnique ==
    LET parts == disc.parts
        k == disc.k
    IN  disc.result /= "none" =>
          /\ \A a, b \in 1..Len(parts) :
                a /= b => parts[a].partNumber /= parts[b].partNumber
          /\ { parts[a].partNumber : a \in 1..Len(parts) } = ListedPartNumbers(k)
          /\ \A a \in 1..Len(parts) :
                parts[a].family = disc.families[FirstListing(parts[a].partNumber, k)[1]]
          /\ \A a, b \in 1..Len(parts) :
                a < b => Before(FirstListing(parts[a].partNumber, k),
                                FirstListing(parts[b].partNumber, k))
          /\ (disc.result = "returned" => k = Len(disc.families) /\ Len(parts) > 0)
          /\ (disc.result = "threw" => k = Len(disc.families) /\ Len(parts) = 0)

\* a run has returned two parts, one of them listed by both families
C10_Witness ==
    /\ disc.result = "returned"
    /\ Len(disc.parts) = 2
    /\ \E pn \in PartNumbers :
          \E p, q \in Listings(pn, disc.k) : p[1] /= q[1]

(***************************************************************************)
(* The seed loop and the merge, against the responses as received.         *)
(***************************************************************************)
\* the k-th seed answered with a list of stores
SeedSucceeded(k) == ful.responses[k].kind = "ok"

\* where a store with this key is reported among all seeds: <<f, n>> is
\* the n-th store of the response to the f-th seed
Reports(key) ==
    { pos \in (1..Len(ful.seeds)) \X (1..MaxStores + 1) :
        /\ SeedSucceeded(pos[1])
        /\ pos[2] <= Len(ful.responses[pos[1]].stores)
        /\ storeKey(ful.responses[pos[1]].stores[pos[2]]) = key }

FirstReport(key) ==
    CHOOSE p \in Reports(key) : \A q \in Reports(key) : p = q \/ Before(p, q)

ReportedKeys == { storeKey(s) : s \in StoreChoices }

\* C11: the merged store list has no two stores with the same key
\* (storeNumber, or country:city:storeName when storeNumber is absent); it
\* has a store for exactly the keys some seed reported, and the store kept
\* for a key is the first one reported under it, in seed order.
C11_MergedStoresUnique ==
    LET stores == ful.stores
    IN  ful.result = "merged" =>
          /\ \A a, b \in 1..Len(stores) :
                a /= b => storeKey(stores[a]) /= storeKey(stores[b])
          /\ { storeKey(stores[a]) : a \in 1..Len(stores) }
                = { key \in ReportedKeys : Reports(key) /= {} }
          /\ \A a \in 1..Len(stores) :
                LET p == FirstReport(storeKey(stores[a]))
                IN  stores[a] = ful.responses[p[1]].stores[p[2]]

\* a merge of two seeds that report different stores under one key, the
\* second seed also reporting a store of its own
C11_Witness ==
    /\ ful.result = "merged"
    /\ Len(ful.seeds) = 2
    /\ Len(ful.stores) = 2
    /\ \E key \in ReportedKeys :
          \E p, q \in Reports(key) :
             /\ p[1] /= q[1]
             /\ ful.responses[p[1]].stores[p[2]] /= ful.responses[q[1]].stores[q[2]]

(***************************************************************************)
(* Failures during discovery.                                              *)
(***************************************************************************)
\* the families whose page fetch threw: HTTP failure, no metrics script,
\* or metrics that are not JSON
FailedFamilies == { f \in 1..Len(disc.families) : disc.pages[f].kind /= "ok" }

\* the families whose page lists at least one qualifying product
YieldingFamilies ==
    { f \in 1..Len(disc.families) :
        \E pn \in PartNumbers : \E p \in Listings(pn, Len(disc.families)) : p[1] = f }

\* C12: when a run has ended in which some family's page failed and some
\* other family yielded parts, the run returned (it did not throw), no part
\* of the result comes from a failed family, and every partNumber listed by
\* a family that answered is in the result.
C12_FailedFamilyIgnored ==
    (disc.result \in { "returned", "threw" }
        /\ FailedFamilies /= {} /\ YieldingFamilies /= {})
    => /\ disc.result = "returned"
       /\ \A f \in FailedFamilies : \A a \in 1..Len(disc.parts) :
             disc.parts[a].family /= disc.families[f]
       /\ \A pn \in ListedPartNumbers(Len(disc.families)) :
             \E a \in 1..Len(disc.parts) : disc.parts[a].partNumber = pn

\* a run of two families has returned, the first page having failed with
\* an HTTP error and the second having listed two parts
C12_Witness ==
    /\ disc.result = "returned"
    /\ Len(disc.families) = 2
    /\ disc.pages[1].kind = "http"
    /\ Len(disc.parts) = 2

\* the discovery of invocation i ends in this step without a part
DiscoversNothing(i) ==
    inv[i].rpc = "discover" /\ inv'[i].rpc /= "discover" /\ inv'[i].parts = <<>>

\* the rebuild of invocation i has failed in discovery
FailedInDiscovery(i) == inv[i].rpc = "threw" /\ inv[i].payload = NoValue

\* C13: a rebuild (forced, background or cron) whose discovery finds no
\* part throws in that step, with no fulfillment query issued and no
\* payload built, and that attempt writes nothing: the step changes neither
\* tier, and from then on the invocation stays failed, builds no payload,
\* and performs no put on the durable store and no cache put of a rebuilt
\* response; none of its later steps changes a tier (but for the cache
\* put of the stored snapshot that a durable-hit request schedules).
C13_NoPartsFailsBeforeFulfillment ==
    [][\A i \in Inv :
          /\ DiscoversNothing(i)
                => /\ inv'[i].rpc = "threw" /\ inv'[i].payload = NoValue
                   /\ kv' = kv /\ edge' = edge
          /\ (FailedInDiscovery(i) /\ inv'[i].kind /= "idle")
                => /\ FailedInDiscovery(i)'
                   /\ inv'[i].ops \cap { "kv.put", "cache.put" } = {}
                   /\ (inv'[i] /= inv[i] /\ inv[i].mode /= "kv"
                         => kv' = kv /\ edge' = edge)
                   /\ kvWriter' /= i]_vars

\* a forced request has failed in discovery while the durable store holds
\* a snapshot, and has answered with the error
C13_Witness ==
    \E i \in Inv :
        /\ inv[i].mode = "forced" /\ FailedInDiscovery(i)
        /\ inv[i].resp.status = 500
        /\ kv /= NoValue

\* the store lists the loop has pushed after k seeds, by what the seeds
\* answered: the non-empty lists of the seeds that succeeded, in seed order
RECURSIVE ListsOfSucceeded(_)
ListsOfSucceeded(k) ==
    IF k = 0 THEN <<>>
    ELSE IF SeedSucceeded(k) /\ Len(ful.responses[k].stores) > 0
         THEN Append(ListsOfSucceeded(k - 1), ful.responses[k].stores)
         ELSE ListsOfSucceeded(k - 1)

\* C14: a seed whose query fails (HTTP failure or unparseable body)
\* contributes no stores and does not end the run: after k seeds the lists
\* pushed are those of the seeds that succeeded; while seeds remain the next
\* one is queried; the run ends merged only after every seed was queried,
\* with a store for exactly the keys the succeeding seeds reported.
C14_FailedSeedDropped ==
    /\ ful.result \in { "running", "merged" } =>
          /\ ful.storesLists = ListsOfSucceeded(ful.k)
          /\ ful.storesLists = collectStoresLists(<< 1 >>, SubSeq(ful.seeds, 1, ful.k),
                                                  SubSeq(ful.responses, 1, ful.k))
          /\ (ful.result = "running" /\ ful.k < Len(ful.seeds) => ENABLED QuerySeed)
          /\ (ful.result = "running" /\ ful.k = Len(ful.seeds) => ENABLED MergeStores)
    /\ ful.result = "merged" =>
          /\ ful.k = Len(ful.seeds)
          /\ { storeKey(ful.stores[a]) : a \in 1..Len(ful.stores) }
                = { key \in ReportedKeys : Reports(key) /= {} }
          /\ \A a \in 1..Len(ful.stores) :
                \E f \in 1..Len(ful.seeds) :
                   /\ SeedSucceeded(f)
                   /\ \E n \in 1..Len(ful.responses[f].stores) :
                         ful.stores[a] = ful.responses[f].stores[n]

\* a run of two seeds has ended: the first query failed, the second
\* answered with stores, and these are the merged stores
C14_Witness ==
    /\ ful.result = "merged"
    /\ Len(ful.seeds) = 2
    /\ ~SeedSucceeded(1) /\ SeedSucceeded(2)
    /\ Len(ful.stores) > 0

(***************************************************************************)
(* Opening hours, against the rows as declared.                            *)
(***************************************************************************)
\* the time of day a token stands for, in minutes
MinuteOfDay(tok) ==
    CASE tok = timeToken("", 10, 0) -> 10 * 60
      [] tok = timeToken("pm", 9, 0) -> 21 * 60
      [] tok = timeToken("", 22, 0) -> 22 * 60
      [] tok = timeToken("", 2, 0) -> 2 * 60
      [] tok = timeToken("am", 12, 30) -> 30

\* row r is a row for today: its days, as computeOpenNow expands them,
\* include the weekday, and it has a start and an end
AppliesToday(r) ==
    /\ hrs.weekday \in expandChineseDays(hrs.hoursRows[r].days)
    /\ Len(hrs.hoursRows[r].timings) >= 2

RowsForToday == { r \in 1..Len(hrs.hoursRows) : AppliesToday(r) }

\* the hours row for the current weekday: the first row for today
TodayRow == CHOOSE r \in RowsForToday : \A q \in RowsForToday : r <= q

\* today's row is a range of two times of day
TodayIsRange ==
    /\ RowsForToday /= {}
    /\ hrs.hoursRows[TodayRow].timings[1].kind = "time"
    /\ hrs.hoursRows[TodayRow].timings[2].kind = "time"

TodayStart == MinuteOfDay(hrs.hoursRows[TodayRow].timings[1])
TodayEnd == MinuteOfDay(hrs.hoursRows[TodayRow].timings[2])

\* C15: when today's row is a same-day range start-end (start <= end),
\* computeOpenNow returns isOpen true exactly when start <= now <= end, and
\* todayHours is that row's range.
C15_OpenWithinSameDayRange ==
    (hrs.result = "done" /\ TodayIsRange /\ TodayStart <= TodayEnd)
    => /\ hrs.isOpen = (TodayStart <= hrs.minutes /\ hrs.minutes <= TodayEnd)
       /\ hrs.todayHours = SubSeq(hrs.hoursRows[TodayRow].timings, 1, 2)

\* a store open 10:00 to 21:00 on Mondays, behind a row for other days, is
\* found open on a Monday at 15:00
C15_Witness ==
    /\ hrs.result = "done"
    /\ Len(hrs.hoursRows) = 2
    /\ TodayIsRange /\ TodayRow = 2
    /\ TodayStart = 10 * 60 /\ TodayEnd = 21 * 60
    /\ hrs.minutes = 15 * 60
    /\ hrs.isOpen

\* C16 as stated: when today's row is a range whose end is earlier than its
\* start, isOpen is true exactly when now is in [start, 24:00) or in
\* [00:00, end], whatever the length of the range.
C16_OpenAcrossMidnight ==
    (hrs.result = "done" /\ TodayIsRange /\ TodayEnd < TodayStart)
    => hrs.isOpen = (hrs.minutes >= TodayStart \/ hrs.minutes <= TodayEnd)

(***************************************************************************)
(* Races between the writers of the tiers.                                 *)
(***************************************************************************)
\* both background tasks of the durable-hit request i have completed, the
\* rebuild having succeeded: the seeding put and the put of the fresh copy
BothTasksCompleted(i) ==
    inv[i].mode = "kv" /\ inv[i].wpc = "done" /\ inv[i].rpc = "cached"

\* C17 as stated: in the step that completes the second of the two
\* background tasks of a durable-hit request, the rebuild having succeeded,
\* the response cache holds under the canonical key the rebuilt snapshot
\* tagged fresh, whichever of the two cache writes completed last.
C17_FreshEntryAfterBothTasks ==
    [][\A i \in Inv :
          (~BothTasksCompleted(i) /\ BothTasksCompleted(i)')
          => /\ edge'[canonicalKey(inv[i].url)] /= NoResponse
             /\ Carries(edge'[canonicalKey(inv[i].url)].body, "fresh", inv'[i].payload)]_vars

\* the request i reads the durable store in this step and finds nothing
ColdStarts(i) == inv[i].pc = "getKV" /\ inv'[i].pc = "done" /\ kv = NoValue

\* C18: a non-forced request that finds both tiers empty returns the
\* warmup placeholder and starts one background rebuild of its own,
\* whatever the other invocations are doing (the read is never held back);
\* when a put of a cold-start rebuild lands, on the durable store or on the
\* response cache, that tier holds that rebuild's snapshot, whatever
\* another rebuild wrote there before.
C18_ColdStartsRace ==
    [][\A i \in Inv :
          /\ (inv[i].pc = "getKV" => ENABLED ReadKV(i))
          /\ ColdStarts(i)
                => /\ IsPlaceholder(inv'[i].resp.body)
                   /\ inv'[i].mode = "cold" /\ inv'[i].nbg = 1
                   /\ inv'[i].rpc = "discover"
          /\ (inv[i].mode = "cold" /\ "kv.put" \notin inv[i].ops
                /\ "kv.put" \in inv'[i].ops)
                => getKV(kv') = inv[i].payload
          /\ (inv[i].mode = "cold" /\ "cache.put" \notin inv[i].ops
                /\ "cache.put" \in inv'[i].ops)
                => Carries(edge'[canonicalKey(inv[i].url)].body, "fresh", inv[i].payload)]_vars

\* two cold-start rebuilds with different snapshots have both written both
\* tiers: the durable store holds the snapshot of the one, the response
\* cache that of the other
C18_Witness ==
    \E i, j \in Inv :
        /\ inv[i].mode = "cold" /\ inv[j].mode = "cold"
        /\ inv[i].rpc = "cached" /\ inv[j].rpc = "cached"
        /\ IsPlaceholder(inv[i].resp.body) /\ IsPlaceholder(inv[j].resp.body)
        /\ inv[i].payload /= inv[j].payload
        /\ getKV(kv) = inv[i].payload
        /\ edge[canonicalKey(inv[j].url)] /= NoResponse
        /\ Carries(edge[canonicalKey(inv[j].url)].body, "fresh", inv[j].payload)

\* the position in the configured list of the family a part is tagged with
FamilyPosition(part) ==
    CHOOSE f \in 1..Len(disc.families) : disc.families[f] = part.family

\* C19 as stated: while a run has family pages it has not asked for, the
\* fetch of the next one can be issued whether or not the fetches issued
\* so far have answered; and the merged parts are in the order of their
\* families in the configured list.
C19_FetchesIssuedWithoutWaiting ==
    /\ (disc.result = "running" /\ disc.issued < Len(disc.families))
          => ENABLED IssueFetch
    /\ \A a, b \in 1..Len(disc.parts) :
          a < b => FamilyPosition(disc.parts[a]) <= FamilyPosition(disc.parts[b])

(***************************************************************************)
(* Progress of the background task.                                        *)
(***************************************************************************)
\* the cold-start request i has returned the placeholder and its
\* background rebuild is at its start
ColdStartReturned(i) ==
    /\ inv[i].mode = "cold" /\ inv[i].pc = "done" /\ inv[i].rpc = "discover"
    /\ IsPlaceholder(inv[i].resp.body)

\* the background task of i has ended in a failure: discovery or the put on
\* the durable store threw, or the cache put was rejected
BackgroundFailed(i) == inv[i].rpc \in { "threw", "uncached" }

\* the background task of i has completed: the durable store holds a
\* snapshot and the response cache holds, under the canonical key of the
\* request, the rebuilt snapshot tagged fresh, which is what a non-forced
\* request for that URL is answered with
BackgroundLanded(i) ==
    /\ inv[i].rpc = "cached"
    /\ kv /= NoValue /\ getKV(kv).models /= <<>>
    /\ edge[canonicalKey(inv[i].url)] /= NoResponse
    /\ Carries(edge[canonicalKey(inv[i].url)].body, "fresh", inv[i].payload)
    /\ ~IsPlaceholder(edge[canonicalKey(inv[i].url)].body)

\* C20: after a cold-start request has returned the warmup placeholder, its
\* background task runs to its end: unless an upstream fetch or a store
\* write fails, eventually the durable store holds a snapshot and the
\* response cache holds a fresh-tagged entry under the canonical key.
C20_ColdStartRebuildLands ==
    \A i \in Inv : ColdStartReturned(i) ~> (BackgroundFailed(i) \/ BackgroundLanded(i))

\* the background task of a cold-start request has landed
C20_Witness ==
    \E i \in Inv :
        /\ inv[i].mode = "cold" /\ IsPlaceholder(inv[i].resp.body)
        /\ BackgroundLanded(i)

(***************************************************************************)
(* What the two tiers hold.                                                *)
(***************************************************************************)
\* a snapshot as the rebuild persists it: models, and no source tag
IsPersistedSnapshot(v) ==
    /\ "source" \notin DOMAIN getKV(v)
    /\ getKV(v).models /= <<>>

\* a response as the response cache may hold it: a snapshot tagged kv or fresh
IsCachedSnapshot(res) ==
    /\ res.status = 200
    /\ res.body.source \in { "kv", "fresh" }
    /\ res.body.models /= <<>>

\* C21: in every reachable state neither tier holds a placeholder: the
\* snapshot in the durable store, if any, has a non-empty models list and
\* no source tag, and every entry of the response cache is tagged kv or
\* fresh, never warmup; a warmup response is one that a request produced
\* itself in its cold start.
C21_NoPlaceholderInTiers ==
    /\ kv /= NoValue => IsPersistedSnapshot(kv)
    /\ \A k \in AllUrls : edge[k] /= NoResponse => IsCachedSnapshot(edge[k])
    /\ \A i \in Inv :
          (inv[i].resp /= NoResponse /\ inv[i].resp.status = 200
             /\ inv[i].resp.body.source = "warmup")
          => inv[i].mode = "cold" /\ inv[i].wpc = "none"

\* both tiers are filled while a cold-start request holds the placeholder
\* it returned
C21_Witness ==
    /\ kv /= NoValue
    /\ \E k \in AllUrls : edge[k] /= NoResponse /\ edge[k].body.source = "kv"
    /\ \E i \in Inv : inv[i].mode = "cold" /\ IsPlaceholder(inv[i].resp.body)

(***************************************************************************)
(* The order of the two writes of a rebuild.                               *)
(***************************************************************************)
\* the put of the rebuild of i on the durable store has completed
Persisted(i) == "kv.put" \in inv[i].ops

\* the rebuild of i issues its write of the response cache in this step:
\* the awaited cache.put of a background task, or the waitUntil(cache.put)
\* of a forced request
IssuesCacheWrite(i) ==
    \/ inv[i].mode \in {"kv", "cold"}
          /\ inv[i].rpc \notin {"cached", "uncached"} /\ inv'[i].rpc \in {"cached", "uncached"}
    \/ inv[i].mode = "forced" /\ inv[i].wpc = "none" /\ inv'[i].wpc /= "none"

\* C22: within one rebuild, forced or background, the write of the durable
\* store has completed, successfully, before the write of the response
\* cache is issued: the step that completes the put leaves the rebuilt
\* snapshot in the store, the snapshot stays the rebuild's from then on,
\* a rebuild whose put was rejected issues no cache write, and every
\* fresh-tagged entry that enters the response cache carries the snapshot
\* of a rebuild whose put has completed, which is a snapshot the durable
\* store held at that earlier moment.
C22_PersistBeforeCache ==
    [][/\ \A i \in Inv :
             /\ (~Persisted(i) /\ Persisted(i)')
                   => kv' = JSONstringify(inv[i].payload) /\ inv'[i].payload = inv[i].payload
             /\ (Persisted(i) /\ inv'[i].kind /= "idle")
                   => Persisted(i)' /\ inv'[i].payload = inv[i].payload
             /\ IssuesCacheWrite(i) => Persisted(i) /\ inv[i].rpc = "ok"
             /\ (inv[i].rpc = "threw" /\ inv'[i].kind /= "idle")
                   => inv'[i].rpc = "threw" /\ ~IssuesCacheWrite(i)
       /\ \A k \in AllUrls :
             (edge'[k] /= edge[k] /\ edge'[k] /= NoResponse /\ edge'[k].body.source = "fresh")
             => \E i \in Inv :
                   /\ Persisted(i)
                   /\ Carries(edge'[k].body, "fresh", inv[i].payload)]_vars

\* the response cache holds a fresh-tagged snapshot that the durable store
\* no longer holds (a later rebuild has replaced it), and a rebuild whose
\* put was rejected has ended without a cache write
C22_Witness ==
    /\ \E k \in AllUrls :
          /\ edge[k] /= NoResponse /\ edge[k].body.source = "fresh"
          /\ kv /= NoValue /\ ~Carries(edge[k].body, "fresh", getKV(kv))
    /\ \E i \in Inv :
          /\ inv[i].rpc = "threw" /\ inv[i].payload /= NoValue
          /\ ~Persisted(i) /\ "cache.put" \notin inv[i].ops

\* C23 as stated: the durable store never goes back to an older snapshot:
\* whenever a put replaces the value under availability.latest, the new
\* value was built (generatedAt) no earlier than the value it replaces.
C23_StoreNeverRegresses ==
    [][(kv /= NoValue /\ kv' /= NoValue /\ kv' /= kv)
          => getKV(kv').generatedAt >= getKV(kv).generatedAt]_vars

(***************************************************************************)
(* A rebuild that gets no store.                                           *)
(***************************************************************************)
\* at the instant now the query of every configured seed fails or returns
\* no stores
NoSeedAnswers(now) ==
    \A k \in 1..Len(DEFAULT_LOCATION_SEEDS) :
        \/ seedResponsesAt(now)[k].kind /= "ok"
        \/ seedResponsesAt(now)[k].stores = <<>>

\* the answers to a seed's query that give the build no store: the fetch
\* fails, the body is not JSON, the stores list is empty
SilentAnswers == { [kind |-> "http"], [kind |-> "badjson"], [kind |-> "ok", stores |-> <<>>] }

\* the rebuild of i has built a snapshot with models and without stores
EmptyHanded(i) ==
    /\ inv[i].payload /= NoValue
    /\ inv[i].payload.models /= <<>>
    /\ inv[i].payload.stores = <<>> /\ inv[i].payload.availability = <<>>

\* C24: a rebuild whose discovery succeeded and whose seeds all fail (or
\* return no stores) does not fail: it builds a snapshot with the
\* discovered models and empty stores and availability lists, the same
\* snapshot whichever way each seed gave no store; its put, when
\* it succeeds, leaves that snapshot in the durable store whatever the
\* store held; and the request path that ran it tags that snapshot fresh,
\* in the response of a forced request and in the response-cache entry of
\* a background task.
C24_RebuildWithoutStores ==
    [][\A i \in Inv :
          /\ (inv[i].rpc = "fulfil" /\ inv'[i].rpc /= "fulfil" /\ NoSeedAnswers(clock))
                => /\ inv'[i].rpc = "put"
                   /\ inv[i].parts /= <<>>
                   /\ inv'[i].payload = [ generatedAt |-> clock, models |-> inv[i].parts,
                                          stores |-> <<>>, availability |-> <<>> ]
                   /\ \A a \in SilentAnswers :
                         payloadOf(inv[i].parts, DEFAULT_LOCATION_SEEDS,
                                   [k \in 1..Len(DEFAULT_LOCATION_SEEDS) |-> a], clock)
                            = inv'[i].payload
          /\ (EmptyHanded(i) /\ inv[i].rpc = "put" /\ inv'[i].rpc = "ok")
                => getKV(kv') = inv[i].payload
          /\ (EmptyHanded(i) /\ inv[i].mode = "forced" /\ inv[i].rpc = "ok" /\ Returns(i))
                => /\ inv'[i].resp.status = 200
                   /\ Carries(inv'[i].resp.body, "fresh", inv[i].payload)
                   /\ inv'[i].wres = inv'[i].resp /\ inv'[i].wpc = "pending"
          /\ (EmptyHanded(i) /\ "cache.put" \notin inv[i].ops /\ "cache.put" \in inv'[i].ops)
                => Carries(edge'[canonicalKey(inv[i].url)].body, "fresh", inv[i].payload)]_vars

\* a forced request has answered with a snapshot without stores, tagged
\* fresh, which its put left in the durable store in place of the snapshot
\* with stores that another rebuild had persisted
C24_Witness ==
    \E i, j \in Inv :
        /\ inv[i].mode = "forced" /\ EmptyHanded(i)
        /\ inv[i].resp.status = 200 /\ Carries(inv[i].resp.body, "fresh", inv[i].payload)
        /\ kvWriter = i /\ getKV(kv) = inv[i].payload
        /\ j /= i /\ Persisted(j) /\ inv[j].payload.stores /= <<>>

(***************************************************************************)
(* Day ranges.                                                             *)
(***************************************************************************)
\* the weekday w lies in the days a token names: the day a, or the days
\* from a through b of a week in which Sunday follows Saturday
NamesDay(tk, w) ==
    IF tk.a < 0 THEN FALSE
    ELSE IF tk.b < 0 THEN w = tk.a
    ELSE IF tk.a <= tk.b THEN tk.a <= w /\ w <= tk.b
    ELSE w >= tk.a \/ w <= tk.b

\* row r names the current weekday and has a start and an end
NamesToday(r) ==
    /\ \E n \in 1..Len(hrs.hoursRows[r].days) : NamesDay(hrs.hoursRows[r].days[n], hrs.weekday)
    /\ Len(hrs.hoursRows[r].timings) >= 2

RowsNamingToday == { r \in 1..Len(hrs.hoursRows) : NamesToday(r) }

FirstRowNamingToday == CHOOSE r \in RowsNamingToday : \A q \in RowsNamingToday : r <= q

\* C25 as stated: a row whose day field is a range A-B applies on every
\* weekday from A through B, ranges that end on Sunday included: when the
\* current weekday lies in the days of a row, computeOpenNow sets
\* todayHours and isOpen from the first such row.
C25_RangeRowAppliesThroughSunday ==
    (hrs.result = "done" /\ RowsNamingToday /= {})
    => LET row == hrs.hoursRows[FirstRowNamingToday]
       IN  /\ hrs.todayHours = << startRawOf(row), endRawOf(row) >>
           /\ hrs.isOpen = isOpenAt(parseCNTimeToken(startRawOf(row)),
                                    parseCNTimeToken(endRawOf(row)), hrs.minutes)

=============================================================================
